---- MODULE Spec2Model ----
(***************************************************************************)
(* Balance reconciliation of the budget backend: the account, expense and  *)
(* income tables and the request handlers of routers/accounts.py,          *)
(* routers/expenses.py and routers/income.py.                              *)
(*                                                                         *)
(* A handler runs in one SQLAlchemy session (database.get_session): what   *)
(* it changes is pending until session.commit(), and an HTTPException or a *)
(* store error before the commit ends the session without writing.  Each   *)
(* handler is therefore one atomic action here; SpecConcurrent below       *)
(* splits a request into its reads and its commit to study interleavings. *)
(*                                                                         *)
(* main.py mounts the routers of accounts.py and expenses.py; the handlers *)
(* of income.py are modelled as they would run once mounted.               *)
(*                                                                         *)
(* Amounts and balances are Python floats.  The model draws them from      *)
(* small integers, where float arithmetic is exact.                        *)
(***************************************************************************)
EXTENDS Integers, Sequences, FiniteSets, TLC

(***************************************************************************)
(* Bounds of the model.                                                    *)
(***************************************************************************)
MaxAccountId == 2      \* account ids 1..MaxAccountId
MaxExpenseId == 2      \* the expense sequence hands out 1..MaxExpenseId
MaxIncomeId == 1       \* the income sequence hands out 1..MaxIncomeId
MaxAmount == 2         \* amounts 1..MaxAmount

AccountIds == 1 .. MaxAccountId
Amounts == 1 .. MaxAmount

\* Python's None where an int is expected (Optional[int] = None).
None == -1

(***************************************************************************)
(* Loosely typed request values (Dict[str, Any]): a JSON number, a JSON    *)
(* string (a sequence of characters; "euro" and "pound" stand for the two  *)
(* non-ASCII currency glyphs), JSON null, a JSON list, or a key that is    *)
(* not in the dict at all.                                                 *)
(***************************************************************************)
Num(n) == [t |-> "num", n |-> n, s |-> << >>]
Str(s) == [t |-> "str", n |-> 0, s |-> s]
JsonNull == [t |-> "null", n |-> 0, s |-> << >>]
JsonList == [t |-> "list", n |-> 0, s |-> << >>]
Absent == [t |-> "absent", n |-> 0, s |-> << >>]

Has(data, key) == data[key].t # "absent"     \* `key in data`

Digits == <<"0", "1", "2", "3", "4", "5", "6", "7", "8", "9">>
IsDigit(c) == \E i \in 1 .. 10 : Digits[i] = c
DigitVal(c) == (CHOOSE i \in 1 .. 10 : Digits[i] = c) - 1
IsSpace(c) == c = " "

\* str.replace(x, ''): drop every occurrence of the characters in `drop`.
RECURSIVE Remove(_, _)
Remove(s, drop) ==
    IF s = << >> THEN << >>
    ELSE IF Head(s) \in drop THEN Remove(Tail(s), drop)
    ELSE <<Head(s)>> \o Remove(Tail(s), drop)

\* str.strip(): drop leading and trailing whitespace.
RECURSIVE LStrip(_)
LStrip(s) == IF s # << >> /\ IsSpace(Head(s)) THEN LStrip(Tail(s)) ELSE s
RECURSIVE RStrip(_)
RStrip(s) ==
    IF s # << >> /\ IsSpace(s[Len(s)]) THEN RStrip(SubSeq(s, 1, Len(s) - 1)) ELSE s
Strip(s) == LStrip(RStrip(s))

\* The value of a digit string, most significant digit first.
RECURSIVE DigitsVal(_)
DigitsVal(s) ==
    IF s = << >> THEN 0
    ELSE 10 * DigitsVal(SubSeq(s, 1, Len(s) - 1)) + DigitVal(s[Len(s)])

AllDigits(s) == s # << >> /\ \A i \in 1 .. Len(s) : IsDigit(s[i])

\* float(text) and int(text) on the texts of the model: surrounding
\* whitespace is ignored, then an optional sign and decimal digits.
Unsigned(s) == IF s # << >> /\ Head(s) \in {"+", "-"} THEN Tail(s) ELSE s
IsNumeral(s) == AllDigits(Unsigned(Strip(s)))
NumeralVal(s) ==
    LET c == Strip(s)
    IN  IF Head(c) = "-" THEN 0 - DigitsVal(Tail(c)) ELSE DigitsVal(Unsigned(c))

Ok(v) == [ok |-> TRUE, val |-> v]
\* Mutant: a value that cannot be converted comes back as 0.
Err_as_zero == Ok(0)
Err == [ok |-> FALSE, val |-> 0]

parse_numeric(value) ==
    IF value.t = "str"
    THEN LET clean_value == Strip(Remove(value.s, {",", "$", "euro", "pound"}))
         IN  IF IsNumeral(clean_value) THEN Ok(NumeralVal(clean_value)) ELSE Err
    ELSE IF value.t = "num" THEN Ok(value.n)
    ELSE Err                                  \* float(None), float([...]): TypeError

\* Mutant: null is refused instead of passed through as "no reference".
parse_int_refuses_null(value) ==
    IF value.t = "str"
    THEN IF IsNumeral(value.s) THEN Ok(NumeralVal(value.s)) ELSE Err
    ELSE IF value.t = "num" THEN Ok(value.n)
    ELSE Err

parse_int(value) ==
    IF value.t = "null" THEN Ok(None)
    ELSE IF value.t = "str"
    THEN IF IsNumeral(value.s) THEN Ok(NumeralVal(value.s)) ELSE Err
    ELSE IF value.t = "num" THEN Ok(value.n)
    ELSE Err                                  \* int([...]): TypeError

\* Mutant: an entry created without an account_id lands on the first account.
account_id_default_first == CHOOSE i \in AccountIds : i - 1 \notin AccountIds

\* account_id: Optional[int] = Field(default=None, foreign_key="account.id")
account_id_default == None

\* `if x.account_id:` -- None and 0 are both falsy.
Truthy(account_id) == account_id # None /\ account_id # 0

(***************************************************************************)
(* State.                                                                  *)
(***************************************************************************)
VARIABLES
    account,        \* table account: id -> [name, balance]
    expense,        \* table expense: id -> [amount, account_id]
    income,         \* table income:  id -> [amount, account_id]
    nextAccountId,  \* the serial sequences behind the primary keys
    nextExpenseId,
    nextIncomeId,
    created,        \* history: id -> the balance the account was created with
    direct,         \* history: the accounts whose balance something other than the
                    \* ledger handlers decided: edited by update_account or
                    \* adjust_balance, or created under an id that entries referenced
    edits,          \* history: how many requests the account handlers have taken
    pre,            \* history: the three tables before the last request
    last,           \* history: the last request and its outcome
    session,        \* SpecConcurrent: client -> the session of its request
    request,        \* history, SpecCoercion: the dict of the last request as the
                    \* client sent it
    investmentaccount,      \* table investmentaccount: id -> [status]
    investmenttransaction,  \* table investmenttransaction: id -> [account_id, amount]
    nextInvestmentAccountId,
    nextInvestmentTransactionId,
    loan,           \* table loan: id -> [type, amount]
    nextLoanId,
    begun,          \* history: how many sessions have been opened
    raced           \* history: a session has committed what it had read before
                    \* another session's commit

tables == <<account, expense, income>>
seqs == <<nextAccountId, nextExpenseId, nextIncomeId>>
vars == <<account, expense, income, nextAccountId, nextExpenseId,
          nextIncomeId, created, direct, edits, pre, last, request, session, begun, raced,
          investmentaccount, investmenttransaction, nextInvestmentAccountId,
          nextInvestmentTransactionId, loan, nextLoanId>>
investments == <<investmentaccount, investmenttransaction, nextInvestmentAccountId,
                 nextInvestmentTransactionId>>
\* What the handlers of accounts.py, expenses.py and income.py never touch.
loans == <<loan, nextLoanId>>
open == <<session, begun, raced, investments, loans>>

Names == {"cash", "bank"}

Snapshot == [account |-> account, expense |-> expense, income |-> income]

\* What a request asked for, after coercion: Unsent for a key the dict lacks
\* (or a value the coercion refused, or a request that has no dict).
Unsent == None - 1
Asked(result, sent) == IF sent /\ result.ok THEN result.val ELSE Unsent
\* The same for the account reference, read off the dict itself: None for a
\* null the dict carries.
AskedRef(data, result, sent) ==
    IF sent /\ Has(data, "account_id")
    THEN IF data.account_id.t = "null" THEN None ELSE Asked(result, TRUE)
    ELSE Unsent
NoDict == [amount |-> Unsent, account_id |-> Unsent]

\* op: the handler; id: the id in the path (0 for a create); row: the id of the
\* row the handler wrote (0 when it wrote none); asked: the coerced request;
\* res: the outcome.
Response(op, id, row, asked, res) ==
    [op |-> op, id |-> id, row |-> row, asked |-> asked, res |-> res]

\* Mutant: the handler answers 200 where it should raise.
Abort_answers_ok(op, id, asked, res) ==
    /\ last' = Response(op, id, 0, asked, "ok")
    /\ pre' = Snapshot
    /\ UNCHANGED <<tables, seqs, created, direct, edits, open>>

\* The session ends without a commit: an HTTPException raised by the handler,
\* or a commit the store refused.
Abort(op, id, asked, res) ==
    /\ last' = Response(op, id, 0, asked, res)
    /\ pre' = Snapshot
    /\ UNCHANGED <<tables, seqs, created, direct, edits, open>>

\* Mutant: the DELETE is lost.
Drop_keeps(table, id) == table

\* The rows of `table` with row `old` gone and row `new` holding `row`.
Put(table, old, new, row) ==
    [i \in (DOMAIN table \ {old}) \cup {new} |-> IF i = new THEN row ELSE table[i]]
Drop(table, id) == [i \in DOMAIN table \ {id} |-> table[i]]

\* foreign_key="account.id": a row written with an account_id that names no
\* account row.  A store that enforces the key (PostgreSQL) refuses the commit,
\* one that does not (SQLite as configured by create_engine) takes it; which
\* one runs is DATABASE_URL's choice, so a commit in this case may go either way.
Dangling(account_id, accounts) == account_id # None /\ account_id \notin DOMAIN accounts

(***************************************************************************)
(* routers/expenses.py                                                     *)
(***************************************************************************)
\* Mutants: the sign of one balance update slipped.
create_expense_deduct_adds(balance, amount) == balance + amount
delete_expense_refund_subtracts(balance, amount) == balance - amount
update_expense_revert_subtracts(balance, old_amount) == balance - old_amount

\* account.balance -= expense.amount
create_expense_deduct(balance, amount) == balance - amount
\* old_account.balance += old_amount
update_expense_revert(balance, old_amount) == balance + old_amount
\* new_account.balance -= expense.amount
update_expense_apply(balance, amount) == balance - amount
\* account.balance += expense.amount
delete_expense_refund(balance, amount) == balance + amount

create_expense(expense_input) ==
    LET amount == parse_numeric(expense_input.amount)
        account_id == IF Has(expense_input, "account_id")
                      THEN parse_int(expense_input.account_id) ELSE Ok(account_id_default)
        asked == [amount |-> Asked(amount, TRUE),
                  account_id |-> AskedRef(expense_input, account_id, amount.ok)]
        row == [amount |-> amount.val, account_id |-> account_id.val]
        \* Deduct amount from account balance
        applied == IF Truthy(row.account_id)
                   THEN [account EXCEPT ![row.account_id].balance =
                                            create_expense_deduct(@, row.amount)]
                   ELSE account
    IN  /\ nextExpenseId <= MaxExpenseId
        /\ IF ~amount.ok THEN Abort("create_expense", 0, asked, "InvalidAmount")
           ELSE IF ~account_id.ok THEN Abort("create_expense", 0, asked, "InvalidReference")
           ELSE IF Truthy(row.account_id) /\ row.account_id \notin DOMAIN account
           THEN Abort("create_expense", 0, asked, "AccountNotFound")
           ELSE \* session.commit(): the INSERT draws the next id, kept or not
                /\ nextExpenseId' = nextExpenseId + 1
                /\ pre' = Snapshot
                /\ UNCHANGED <<income, nextAccountId, nextIncomeId, created, direct, edits, open>>
                /\ \/ /\ nextExpenseId \in DOMAIN expense \/ Dangling(row.account_id, account)
                      /\ last' = Response("create_expense", 0, 0, asked, "IntegrityError")
                      /\ UNCHANGED <<account, expense>>
                   \/ /\ nextExpenseId \notin DOMAIN expense
                      /\ account' = applied
                      /\ expense' = Put(expense, nextExpenseId, nextExpenseId, row)
                      /\ last' = Response("create_expense", 0, nextExpenseId, asked, "ok")

update_expense(expense_id, expense_data) ==
    IF expense_id \notin DOMAIN expense
    THEN Abort("update_expense", expense_id, NoDict, "NotFound")
    ELSE
    LET amount == IF Has(expense_data, "amount")
                  THEN parse_numeric(expense_data.amount) ELSE Ok(expense[expense_id].amount)
        account_id == IF Has(expense_data, "account_id")
                      THEN parse_int(expense_data.account_id)
                      ELSE Ok(expense[expense_id].account_id)
        asked == [amount |-> Asked(amount, Has(expense_data, "amount")),
                  account_id |-> AskedRef(expense_data, account_id, amount.ok)]
        old_amount == expense[expense_id].amount
        old_account_id == expense[expense_id].account_id
        \* Revert old balance
        reverted == IF Truthy(old_account_id) /\ old_account_id \in DOMAIN account
                    THEN [account EXCEPT ![old_account_id].balance =
                                             update_expense_revert(@, old_amount)]
                    ELSE account
        \* Update fields: setattr for every key of the dict that the row has
        id == IF Has(expense_data, "id") THEN expense_data.id.n ELSE expense_id
        row == [amount |-> amount.val, account_id |-> account_id.val]
        \* Apply new balance
        applied == IF Truthy(row.account_id)
                   THEN [reverted EXCEPT ![row.account_id].balance =
                                             update_expense_apply(@, row.amount)]
                   ELSE reverted
    IN  IF ~amount.ok THEN Abort("update_expense", expense_id, asked, "InvalidAmount")
        ELSE IF ~account_id.ok
        THEN Abort("update_expense", expense_id, asked, "InvalidReference")
        ELSE IF Truthy(row.account_id) /\ row.account_id \notin DOMAIN account
        THEN Abort("update_expense", expense_id, asked, "AccountNotFound")
        ELSE \* session.commit()
             \/ /\ \/ id # expense_id /\ id \in DOMAIN expense
                   \/ row.account_id # old_account_id /\ Dangling(row.account_id, account)
                /\ Abort("update_expense", expense_id, asked, "IntegrityError")
             \/ /\ id = expense_id \/ id \notin DOMAIN expense
                /\ account' = applied
                /\ expense' = Put(expense, expense_id, id, row)
                /\ last' = Response("update_expense", expense_id, id, asked, "ok")
                /\ pre' = Snapshot
                /\ UNCHANGED <<income, seqs, created, direct, edits, open>>

\* Mutant: the refund goes to every account.
delete_expense_refunds_all(expense_id) ==
    IF expense_id \notin DOMAIN expense
    THEN Abort("delete_expense", expense_id, NoDict, "NotFound")
    ELSE LET row == expense[expense_id]
         IN  /\ account' = [a \in DOMAIN account |->
                              [account[a] EXCEPT !.balance =
                                                    delete_expense_refund(@, row.amount)]]
             /\ expense' = Drop(expense, expense_id)
             /\ last' = Response("delete_expense", expense_id, 0, NoDict, "ok")
             /\ pre' = Snapshot
             /\ UNCHANGED <<income, seqs, created, direct, edits, open>>

delete_expense(expense_id) ==
    IF expense_id \notin DOMAIN expense
    THEN Abort("delete_expense", expense_id, NoDict, "NotFound")
    ELSE LET row == expense[expense_id]
         IN  \* Refund balance to account
             /\ account' = IF Truthy(row.account_id) /\ row.account_id \in DOMAIN account
                           THEN [account EXCEPT ![row.account_id].balance =
                                                    delete_expense_refund(@, row.amount)]
                           ELSE account
             /\ expense' = Drop(expense, expense_id)
             /\ last' = Response("delete_expense", expense_id, 0, NoDict, "ok")
             /\ pre' = Snapshot
             /\ UNCHANGED <<income, seqs, created, direct, edits, open>>

(***************************************************************************)
(* routers/income.py                                                       *)
(***************************************************************************)
\* Mutants: the sign of one balance update slipped.
update_income_apply_subtracts(balance, amount) == balance - amount
update_income_revert_adds(balance, old_amount) == balance + old_amount
delete_income_remove_adds(balance, amount) == balance + amount

\* account.balance += income.amount
create_income_add(balance, amount) == balance + amount
\* old_account.balance -= old_amount
update_income_revert(balance, old_amount) == balance - old_amount
\* new_account.balance += income.amount
update_income_apply(balance, amount) == balance + amount
\* account.balance -= income.amount
delete_income_remove(balance, amount) == balance - amount

create_income(income_input) ==
    LET amount == parse_numeric(income_input.amount)
        account_id == IF Has(income_input, "account_id")
                      THEN parse_int(income_input.account_id) ELSE Ok(account_id_default)
        asked == [amount |-> Asked(amount, TRUE),
                  account_id |-> AskedRef(income_input, account_id, amount.ok)]
        row == [amount |-> amount.val, account_id |-> account_id.val]
        \* Add amount to account balance
        applied == IF Truthy(row.account_id)
                   THEN [account EXCEPT ![row.account_id].balance =
                                            create_income_add(@, row.amount)]
                   ELSE account
    IN  /\ nextIncomeId <= MaxIncomeId
        /\ IF ~amount.ok THEN Abort("create_income", 0, asked, "InvalidAmount")
           ELSE IF ~account_id.ok THEN Abort("create_income", 0, asked, "InvalidReference")
           ELSE IF Truthy(row.account_id) /\ row.account_id \notin DOMAIN account
           THEN Abort("create_income", 0, asked, "AccountNotFound")
           ELSE \* session.commit(): the INSERT draws the next id, kept or not
                /\ nextIncomeId' = nextIncomeId + 1
                /\ pre' = Snapshot
                /\ UNCHANGED <<expense, nextAccountId, nextExpenseId, created, direct, edits, open>>
                /\ \/ /\ nextIncomeId \in DOMAIN income \/ Dangling(row.account_id, account)
                      /\ last' = Response("create_income", 0, 0, asked, "IntegrityError")
                      /\ UNCHANGED <<account, income>>
                   \/ /\ nextIncomeId \notin DOMAIN income
                      /\ account' = applied
                      /\ income' = Put(income, nextIncomeId, nextIncomeId, row)
                      /\ last' = Response("create_income", 0, nextIncomeId, asked, "ok")

update_income(income_id, income_data) ==
    IF income_id \notin DOMAIN income
    THEN Abort("update_income", income_id, NoDict, "NotFound")
    ELSE
    LET amount == IF Has(income_data, "amount")
                  THEN parse_numeric(income_data.amount) ELSE Ok(income[income_id].amount)
        account_id == IF Has(income_data, "account_id")
                      THEN parse_int(income_data.account_id)
                      ELSE Ok(income[income_id].account_id)
        asked == [amount |-> Asked(amount, Has(income_data, "amount")),
                  account_id |-> AskedRef(income_data, account_id, amount.ok)]
        old_amount == income[income_id].amount
        old_account_id == income[income_id].account_id
        \* Revert old balance
        reverted == IF Truthy(old_account_id) /\ old_account_id \in DOMAIN account
                    THEN [account EXCEPT ![old_account_id].balance =
                                             update_income_revert(@, old_amount)]
                    ELSE account
        \* Update fields: setattr for every key of the dict that the row has
        id == IF Has(income_data, "id") THEN income_data.id.n ELSE income_id
        row == [amount |-> amount.val, account_id |-> account_id.val]
        \* Apply new balance
        applied == IF Truthy(row.account_id)
                   THEN [reverted EXCEPT ![row.account_id].balance =
                                             update_income_apply(@, row.amount)]
                   ELSE reverted
    IN  IF ~amount.ok THEN Abort("update_income", income_id, asked, "InvalidAmount")
        ELSE IF ~account_id.ok
        THEN Abort("update_income", income_id, asked, "InvalidReference")
        ELSE IF Truthy(row.account_id) /\ row.account_id \notin DOMAIN account
        THEN Abort("update_income", income_id, asked, "AccountNotFound")
        ELSE \* session.commit()
             \/ /\ \/ id # income_id /\ id \in DOMAIN income
                   \/ row.account_id # old_account_id /\ Dangling(row.account_id, account)
                /\ Abort("update_income", income_id, asked, "IntegrityError")
             \/ /\ id = income_id \/ id \notin DOMAIN income
                /\ account' = applied
                /\ income' = Put(income, income_id, id, row)
                /\ last' = Response("update_income", income_id, id, asked, "ok")
                /\ pre' = Snapshot
                /\ UNCHANGED <<expense, seqs, created, direct, edits, open>>

delete_income(income_id) ==
    IF income_id \notin DOMAIN income
    THEN Abort("delete_income", income_id, NoDict, "NotFound")
    ELSE LET row == income[income_id]
         IN  \* Remove income from account balance
             /\ account' = IF Truthy(row.account_id) /\ row.account_id \in DOMAIN account
                           THEN [account EXCEPT ![row.account_id].balance =
                                                    delete_income_remove(@, row.amount)]
                           ELSE account
             /\ income' = Drop(income, income_id)
             /\ last' = Response("delete_income", income_id, 0, NoDict, "ok")
             /\ pre' = Snapshot
             /\ UNCHANGED <<expense, seqs, created, direct, edits, open>>

(***************************************************************************)
(* routers/accounts.py                                                     *)
(***************************************************************************)
\* The expense and income rows whose account_id is `id`.
Referencing(table, id) == {i \in DOMAIN table : table[i].account_id = id}
Referenced(id) == Referencing(expense, id) # {} \/ Referencing(income, id) # {}

\* body: [id, name, balance]; id is None unless the client sent one, balance
\* is Field(default=0.0) unless the client sent one.
create_account(body) ==
    LET id == IF body.id = None THEN nextAccountId ELSE body.id
    IN  /\ id \in 1 .. MaxAccountId + 1
        /\ edits' = edits + 1
        /\ nextAccountId' = IF body.id = None THEN nextAccountId + 1 ELSE nextAccountId
        /\ pre' = Snapshot
        /\ UNCHANGED <<expense, income, nextExpenseId, nextIncomeId, open>>
        /\ IF id \in DOMAIN account
           THEN /\ last' = Response("create_account", 0, 0, NoDict, "IntegrityError")
                /\ UNCHANGED <<account, created, direct>>
           ELSE /\ account' = Put(account, id, id, [name |-> body.name, balance |-> body.balance])
                /\ created' = Put(created, id, id, body.balance)
                /\ direct' = IF Referenced(id) THEN direct \cup {id} ELSE direct \ {id}
                /\ last' = Response("create_account", 0, id, NoDict, "ok")

\* account_data: the fields the client sent (model_dump(exclude_unset=True));
\* name is required by the schema, balance and id are in `sent` when sent.
update_account(account_id, account_data) ==
    IF account_id \notin DOMAIN account
    THEN Abort("update_account", account_id, NoDict, "NotFound")
    ELSE
    LET id == IF "id" \in account_data.sent THEN account_data.id ELSE account_id
        row == [name |-> account_data.name,
                balance |-> IF "balance" \in account_data.sent
                            THEN account_data.balance ELSE account[account_id].balance]
    IN  \/ /\ id # account_id
           /\ id \in DOMAIN account \/ Referenced(account_id)
           /\ Abort("update_account", account_id, NoDict, "IntegrityError")
        \/ /\ id = account_id \/ id \notin DOMAIN account
           /\ account' = Put(account, account_id, id, row)
           /\ created' = Put(created, account_id, id, created[account_id])
           /\ direct' = (direct \ {account_id}) \cup {id}
           /\ edits' = edits + 1
           /\ last' = Response("update_account", account_id, id, NoDict, "ok")
           /\ pre' = Snapshot
           /\ UNCHANGED <<expense, income, seqs, open>>

\* Mutant: the delete cascades to the rows that reference the account.
delete_account_cascades(account_id) ==
    IF account_id \notin DOMAIN account
    THEN Abort("delete_account", account_id, NoDict, "NotFound")
    ELSE /\ account' = Drop(account, account_id)
         /\ expense' = [i \in DOMAIN expense \ Referencing(expense, account_id) |-> expense[i]]
         /\ income' = [i \in DOMAIN income \ Referencing(income, account_id) |-> income[i]]
         /\ created' = Drop(created, account_id)
         /\ direct' = direct \ {account_id}
         /\ edits' = edits + 1
         /\ last' = Response("delete_account", account_id, 0, NoDict, "ok")
         /\ pre' = Snapshot
         /\ UNCHANGED <<seqs, open>>

delete_account(account_id) ==
    IF account_id \notin DOMAIN account
    THEN Abort("delete_account", account_id, NoDict, "NotFound")
    ELSE \/ /\ Referenced(account_id)
            /\ Abort("delete_account", account_id, NoDict, "IntegrityError")
         \/ /\ account' = Drop(account, account_id)
            /\ created' = Drop(created, account_id)
            /\ direct' = direct \ {account_id}
            /\ edits' = edits + 1
            /\ last' = Response("delete_account", account_id, 0, NoDict, "ok")
            /\ pre' = Snapshot
            /\ UNCHANGED <<expense, income, seqs, open>>

adjust_balance(account_id, amount) ==
    IF account_id \notin DOMAIN account
    THEN Abort("adjust_balance", account_id, NoDict, "NotFound")
    ELSE /\ account' = [account EXCEPT ![account_id].balance = @ + amount]
         /\ direct' = direct \cup {account_id}
         /\ edits' = edits + 1
         /\ last' = Response("adjust_balance", account_id, account_id, NoDict, "ok")
         /\ pre' = Snapshot
         /\ UNCHANGED <<expense, income, seqs, created, open>>

(***************************************************************************)
(* Requests.  A dict is the record of its keys, Absent for a key it lacks. *)
(***************************************************************************)
Dict(amount, account_id, id) == [amount |-> amount, account_id |-> account_id, id |-> id]

GoodAmounts == {Num(a) : a \in Amounts}
GoodRefs == {Num(r) : r \in 0 .. MaxAccountId + 1} \cup {JsonNull}
\* Values the coercions turn into a number, and values they refuse.
OddAmounts == {Str(<<" ", "$", "1">>), Str(<<"a", "b", "c">>), JsonNull}
OddRefs == {Str(<<" ", "1">>), Str(<<"$", "1">>), JsonList}

CreateInputs ==
    {Dict(a, r, Absent) : a \in GoodAmounts, r \in GoodRefs \cup {Absent}}
        \cup {Dict(a, Num(1), Absent) : a \in OddAmounts}
        \cup {Dict(Num(1), r, Absent) : r \in OddRefs}
\* Bodies of a PUT: the amount raised or left alone with every reference, the
\* amount lowered, the id rewritten, a refused amount and a refused reference.
UpdateInputs(ids) ==
    {Dict(a, r, Absent) : a \in {Num(MaxAmount), Absent}, r \in GoodRefs \cup {Absent}}
        \cup {Dict(Num(1), Absent, Absent)}
        \cup {Dict(Absent, Absent, Num(i)) : i \in ids}
        \cup {Dict(Str(<<"a", "b", "c">>), Absent, Absent), Dict(Absent, JsonList, Absent)}

EmptyTable == [i \in {} |-> 0]
Start == Response("start", 0, 0, NoDict, "ok")

\* A session: what its handler has loaded and what it holds for the commit.
\* old, row: the entry as loaded and as it is to be written; loaded, balance:
\* per account the handler fetched, the balance read and the balance held;
\* stale: another session has committed since this one loaded.
MaxClients == 2
MaxBegun == 4
Clients == 1 .. MaxClients
NoRow == [amount |-> 0, account_id |-> None]
Idle == [pc |-> "idle", op |-> "none", id |-> 0, asked |-> NoDict, old |-> NoRow,
         row |-> NoRow, loaded |-> EmptyTable, balance |-> EmptyTable, stale |-> FALSE]
OpeningBalance == 100

(***************************************************************************)
(* Spec: the ledger handlers against a fixed set of accounts, made by      *)
(* create_account (the first with an opening balance, the others with the  *)
(* default 0.0) and never touched directly afterwards.                     *)
(***************************************************************************)
Init ==
    /\ account = [i \in AccountIds |->
                    [name |-> "cash", balance |-> IF i = 1 THEN OpeningBalance ELSE 0]]
    /\ created = [i \in AccountIds |-> account[i].balance]
    /\ direct = {}
    /\ edits = 0
    /\ expense = EmptyTable
    /\ income = EmptyTable
    /\ nextAccountId = MaxAccountId + 1
    /\ nextExpenseId = 1
    /\ nextIncomeId = 1
    /\ pre = Snapshot
    /\ last = Start
    /\ request = Dict(Absent, Absent, Absent)
    /\ session = [c \in Clients |-> Idle]
    /\ begun = 0
    /\ raced = FALSE
    /\ investmentaccount = EmptyTable
    /\ investmenttransaction = EmptyTable
    /\ nextInvestmentAccountId = 1
    /\ nextInvestmentTransactionId = 1
    /\ loan = EmptyTable
    /\ nextLoanId = 1

\* The dict of an update matters only when the row is there: update_* looks
\* the row up before it reads the dict.
CreateExpense == UNCHANGED request /\ \E input \in CreateInputs : create_expense(input)
UpdateExpense ==
    UNCHANGED request /\ \E id \in 1 .. MaxExpenseId :
        \E data \in IF id \in DOMAIN expense
                     THEN UpdateInputs(1 .. MaxExpenseId)
                     ELSE {Dict(Absent, Absent, Absent)} :
            update_expense(id, data)
DeleteExpense == UNCHANGED request /\ \E id \in 1 .. MaxExpenseId : delete_expense(id)
CreateIncome == UNCHANGED request /\ \E input \in CreateInputs : create_income(input)
UpdateIncome ==
    UNCHANGED request /\ \E id \in 1 .. MaxIncomeId :
        \E data \in IF id \in DOMAIN income
                     THEN UpdateInputs(1 .. MaxIncomeId)
                     ELSE {Dict(Absent, Absent, Absent)} :
            update_income(id, data)
DeleteIncome == UNCHANGED request /\ \E id \in 1 .. MaxIncomeId : delete_income(id)

Next ==
    \/ CreateExpense
    \/ UpdateExpense
    \/ DeleteExpense
    \/ CreateIncome
    \/ UpdateIncome
    \/ DeleteIncome

Spec == Init /\ [][Next]_vars

(***************************************************************************)
(* SpecSystem: the same accounts and ledger handlers, with the account     *)
(* handlers of routers/accounts.py taking requests in between.             *)
(***************************************************************************)
MaxAccountEdits == 2   \* requests the account handlers take in one behaviour
MaxSystemEntryId == 1  \* the entry sequences hand out 1..MaxSystemEntryId here

SystemAmounts == {Num(1), Num(MaxAmount)}
SystemRefs == {JsonNull} \cup {Num(r) : r \in AccountIds}
SystemCreateInputs == {Dict(Num(1), r, Absent) : r \in SystemRefs}
SystemUpdateInputs ==
    {Dict(Absent, r, Absent) : r \in SystemRefs}
        \cup {Dict(Num(MaxAmount), Absent, Absent), Dict(Num(MaxAmount), Num(MaxAccountId), Absent)}

AccountBodies ==
    [id : {None} \cup (1 .. MaxAccountId + 1), name : {"cash"}, balance : {OpeningBalance}]
AccountUpdates ==
    {[sent |-> {"balance"}, name |-> "bank", balance |-> 0, id |-> None],
     [sent |-> {"id"}, name |-> "bank", balance |-> 0, id |-> MaxAccountId + 1]}
Adjustments == {MaxAmount}

SystemCreateExpense ==
    /\ nextExpenseId <= MaxSystemEntryId /\ UNCHANGED request
    /\ \E input \in SystemCreateInputs : create_expense(input)
SystemUpdateExpense ==
    UNCHANGED request /\ \E id \in DOMAIN expense, data \in SystemUpdateInputs : update_expense(id, data)
SystemCreateIncome ==
    /\ nextIncomeId <= MaxSystemEntryId /\ UNCHANGED request
    /\ \E input \in SystemCreateInputs : create_income(input)
SystemUpdateIncome ==
    UNCHANGED request /\ \E id \in DOMAIN income, data \in SystemUpdateInputs : update_income(id, data)
CreateAccount == edits < MaxAccountEdits /\ UNCHANGED request /\ \E body \in AccountBodies : create_account(body)
UpdateAccount ==
    /\ edits < MaxAccountEdits /\ UNCHANGED request
    /\ \E id \in DOMAIN account, data \in AccountUpdates : update_account(id, data)
DeleteAccount ==
    edits < MaxAccountEdits /\ UNCHANGED request /\ \E id \in 1 .. MaxAccountId + 1 : delete_account(id)
AdjustBalance ==
    /\ edits < MaxAccountEdits /\ UNCHANGED request
    /\ \E id \in 1 .. MaxAccountId + 1, amount \in Adjustments : adjust_balance(id, amount)

SystemNext ==
    \/ SystemCreateExpense
    \/ SystemUpdateExpense
    \/ DeleteExpense
    \/ SystemCreateIncome
    \/ SystemUpdateIncome
    \/ DeleteIncome
    \/ CreateAccount
    \/ UpdateAccount
    \/ DeleteAccount
    \/ AdjustBalance

SpecSystem == Init /\ [][SystemNext]_vars

(***************************************************************************)
(* SpecConcurrent: requests of several clients at once.  A handler is a    *)
(* sync def, so FastAPI runs each request on a worker thread with a        *)
(* session of its own (Depends(get_session)).  The handler loads rows into *)
(* its session and computes on what it loaded; session.commit() then       *)
(* writes every attribute whose value differs from the loaded one, as an   *)
(* UPDATE that sets the column to the value the session holds.  The        *)
(* handler's reads are one step and its commit another.                    *)
(***************************************************************************)
\* Mutant: the UPDATE adds what the session changed to the stored balance.
flush_relative(stored, read, held) == stored + (held - read)

\* UPDATE account SET balance = <held> WHERE id = <id>
flush(stored, read, held) == held

Opened(op, id, asked, old, row, loaded, balance) ==
    [pc |-> "open", op |-> op, id |-> id, asked |-> asked, old |-> old, row |-> row,
     loaded |-> loaded, balance |-> balance, stale |-> FALSE]

\* session.get(Account, id) for each id of `ids`
Load(ids) == [a \in ids |-> account[a].balance]

begin(c, opened) ==
    /\ begun < MaxBegun
    /\ begun' = begun + 1
    /\ session' = [session EXCEPT ![c] = opened]
    /\ UNCHANGED <<tables, seqs, created, direct, edits, pre, last, raced, investments, loans>>

Pending(op) == Cardinality({c \in Clients : session[c].pc = "open" /\ session[c].op = op})

\* The account table after the commit of client c: the balances it changed.
Flushed(c) ==
    LET s == session[c]
    IN  [a \in DOMAIN account |->
            IF a \in DOMAIN s.loaded /\ s.balance[a] # s.loaded[a]
            THEN [account[a] EXCEPT !.balance = flush(@, s.loaded[a], s.balance[a])]
            ELSE account[a]]

\* The sessions after the commit of client c: the open ones have read what is
\* no longer stored.
Settled(c) ==
    [d \in Clients |->
        IF d = c THEN [session[c] EXCEPT !.pc = "committed"]
        ELSE IF session[d].pc = "open" THEN [session[d] EXCEPT !.stale = TRUE]
        ELSE Idle]

commit(c, op, row) ==
    /\ session[c].pc = "open" /\ session[c].op = op
    /\ account' = Flushed(c)
    /\ session' = Settled(c)
    /\ raced' = (raced \/ session[c].stale)
    /\ pre' = Snapshot
    /\ last' = Response(op, session[c].id, row, session[c].asked, "ok")
    /\ UNCHANGED <<nextAccountId, created, direct, edits, begun, investments, loans>>

\* create_expense up to its commit
begin_create_expense(c, expense_input) ==
    LET amount == parse_numeric(expense_input.amount)
        account_id == IF Has(expense_input, "account_id")
                      THEN parse_int(expense_input.account_id) ELSE Ok(account_id_default)
        asked == [amount |-> Asked(amount, TRUE),
                  account_id |-> AskedRef(expense_input, account_id, amount.ok)]
        row == [amount |-> amount.val, account_id |-> account_id.val]
        loaded == Load(IF Truthy(row.account_id) THEN {row.account_id} ELSE {})
        \* Deduct amount from account balance
        balance == [a \in DOMAIN loaded |-> create_expense_deduct(loaded[a], row.amount)]
    IN  /\ session[c].pc # "open"
        /\ nextExpenseId + Pending("create_expense") <= MaxExpenseId
        /\ IF ~amount.ok THEN Abort("create_expense", 0, asked, "InvalidAmount")
           ELSE IF ~account_id.ok THEN Abort("create_expense", 0, asked, "InvalidReference")
           ELSE IF Truthy(row.account_id) /\ row.account_id \notin DOMAIN account
           THEN Abort("create_expense", 0, asked, "AccountNotFound")
           ELSE begin(c, Opened("create_expense", 0, asked, NoRow, row, loaded, balance))

\* session.add(expense); session.commit()
commit_create_expense(c) ==
    /\ commit(c, "create_expense", nextExpenseId)
    /\ expense' = Put(expense, nextExpenseId, nextExpenseId, session[c].row)
    /\ nextExpenseId' = nextExpenseId + 1
    /\ UNCHANGED <<income, nextIncomeId>>

\* create_income up to its commit
begin_create_income(c, income_input) ==
    LET amount == parse_numeric(income_input.amount)
        account_id == IF Has(income_input, "account_id")
                      THEN parse_int(income_input.account_id) ELSE Ok(account_id_default)
        asked == [amount |-> Asked(amount, TRUE),
                  account_id |-> AskedRef(income_input, account_id, amount.ok)]
        row == [amount |-> amount.val, account_id |-> account_id.val]
        loaded == Load(IF Truthy(row.account_id) THEN {row.account_id} ELSE {})
        \* Add amount to account balance
        balance == [a \in DOMAIN loaded |-> create_income_add(loaded[a], row.amount)]
    IN  /\ session[c].pc # "open"
        /\ nextIncomeId + Pending("create_income") <= MaxIncomeId
        /\ IF ~amount.ok THEN Abort("create_income", 0, asked, "InvalidAmount")
           ELSE IF ~account_id.ok THEN Abort("create_income", 0, asked, "InvalidReference")
           ELSE IF Truthy(row.account_id) /\ row.account_id \notin DOMAIN account
           THEN Abort("create_income", 0, asked, "AccountNotFound")
           ELSE begin(c, Opened("create_income", 0, asked, NoRow, row, loaded, balance))

\* session.add(income); session.commit()
commit_create_income(c) ==
    /\ commit(c, "create_income", nextIncomeId)
    /\ income' = Put(income, nextIncomeId, nextIncomeId, session[c].row)
    /\ nextIncomeId' = nextIncomeId + 1
    /\ UNCHANGED <<expense, nextExpenseId>>

\* update_income up to its commit
begin_update_income(c, income_id, income_data) ==
    IF income_id \notin DOMAIN income
    THEN session[c].pc # "open" /\ Abort("update_income", income_id, NoDict, "NotFound")
    ELSE
    LET old == income[income_id]
        amount == IF Has(income_data, "amount")
                  THEN parse_numeric(income_data.amount) ELSE Ok(old.amount)
        account_id == IF Has(income_data, "account_id")
                      THEN parse_int(income_data.account_id) ELSE Ok(old.account_id)
        asked == [amount |-> Asked(amount, Has(income_data, "amount")),
                  account_id |-> AskedRef(income_data, account_id, amount.ok)]
        row == [amount |-> amount.val, account_id |-> account_id.val]
        loaded == Load({a \in {old.account_id, row.account_id} :
                           Truthy(a) /\ a \in DOMAIN account})
        \* Revert old balance
        reverted == [a \in DOMAIN loaded |->
                        IF a = old.account_id
                        THEN update_income_revert(loaded[a], old.amount) ELSE loaded[a]]
        \* Apply new balance
        applied == [a \in DOMAIN loaded |->
                        IF a = row.account_id
                        THEN update_income_apply(reverted[a], row.amount) ELSE reverted[a]]
    IN  /\ session[c].pc # "open"
        /\ IF ~amount.ok THEN Abort("update_income", income_id, asked, "InvalidAmount")
           ELSE IF ~account_id.ok
           THEN Abort("update_income", income_id, asked, "InvalidReference")
           ELSE IF Truthy(row.account_id) /\ row.account_id \notin DOMAIN account
           THEN Abort("update_income", income_id, asked, "AccountNotFound")
           ELSE begin(c, Opened("update_income", income_id, asked, old, row, loaded, applied))

\* session.add(db_income); session.commit(): UPDATE income SET the columns
\* whose value the handler changed
commit_update_income(c) ==
    LET s == session[c]
    IN  /\ commit(c, "update_income", s.id)
        /\ income' = [income EXCEPT ![s.id] =
                        [amount |-> IF s.row.amount # s.old.amount
                                    THEN s.row.amount ELSE @.amount,
                         account_id |-> IF s.row.account_id # s.old.account_id
                                        THEN s.row.account_id ELSE @.account_id]]
        /\ UNCHANGED <<expense, nextExpenseId, nextIncomeId>>

ConcurrentCreateInputs ==
    {Dict(Num(a), r, Absent) : a \in Amounts, r \in {Num(i) : i \in 1 .. MaxAccountId + 1}}
ConcurrentUpdateInputs ==
    {Dict(Num(a), Absent, Absent) : a \in Amounts}
        \cup {Dict(Absent, r, Absent) : r \in {Num(i) : i \in AccountIds} \cup {JsonNull}}

BeginCreateExpense ==
    UNCHANGED request /\ \E c \in Clients : \E input \in ConcurrentCreateInputs : begin_create_expense(c, input)
CommitCreateExpense == UNCHANGED request /\ \E c \in Clients : commit_create_expense(c)
BeginCreateIncome ==
    UNCHANGED request /\ \E c \in Clients : \E input \in ConcurrentCreateInputs : begin_create_income(c, input)
CommitCreateIncome == UNCHANGED request /\ \E c \in Clients : commit_create_income(c)
BeginUpdateIncome ==
    UNCHANGED request /\ \E c \in Clients : \E id \in 1 .. MaxIncomeId : \E data \in ConcurrentUpdateInputs :
        begin_update_income(c, id, data)
CommitUpdateIncome == UNCHANGED request /\ \E c \in Clients : commit_update_income(c)

ConcurrentNext ==
    \/ BeginCreateExpense
    \/ CommitCreateExpense
    \/ BeginCreateIncome
    \/ CommitCreateIncome
    \/ BeginUpdateIncome
    \/ CommitUpdateIncome

SpecConcurrent == Init /\ [][ConcurrentNext]_vars

(***************************************************************************)
(* SpecCoercion: creates and updates whose dict carries values of every    *)
(* JSON type the model has, for the amount and for the account reference,  *)
(* in every combination; the dict of each request is kept in `request`.    *)
(***************************************************************************)
CoercionAmounts ==
    {Num(1), Num(MaxAmount), Str(<<" ", "$", "1">>), Str(<<"a", "b", "c">>), JsonNull, JsonList}
CoercionRefs ==
    {Absent, Num(1), JsonNull, Str(<<" ", "1">>), Str(<<"$", "1">>), JsonList}
CoercionCreateInputs == {Dict(a, r, Absent) : a \in CoercionAmounts, r \in CoercionRefs}
CoercionUpdateInputs ==
    {Dict(a, r, Absent) : a \in CoercionAmounts \cup {Absent}, r \in CoercionRefs}

CoerceCreateExpense ==
    \E input \in CoercionCreateInputs : create_expense(input) /\ request' = input
CoerceUpdateExpense ==
    \E id \in DOMAIN expense, data \in CoercionUpdateInputs :
        update_expense(id, data) /\ request' = data
CoerceCreateIncome ==
    \E input \in CoercionCreateInputs : create_income(input) /\ request' = input
CoerceUpdateIncome ==
    \E id \in DOMAIN income, data \in CoercionUpdateInputs :
        update_income(id, data) /\ request' = data

CoercionNext ==
    \/ CoerceCreateExpense
    \/ CoerceUpdateExpense
    \/ CoerceCreateIncome
    \/ CoerceUpdateIncome

SpecCoercion == Init /\ [][CoercionNext]_vars

(***************************************************************************)
(* routers/investments.py.  The handlers name InvestmentAccount and        *)
(* InvestmentTransaction, which models.py does not define; the rows carry  *)
(* the fields the handlers read: status (with company_name and agent_name, *)
(* which change along with it) and account_id.                             *)
(***************************************************************************)
MaxInvestmentAccountId == 2
MaxInvestmentTransactionId == 3
Statuses == {"active", "closed"}

\* What the handlers of investments.py never touch.
ledger == <<tables, seqs, created, direct, edits, session, begun, raced>>

create_investment_account(account_data) ==
    /\ nextInvestmentAccountId <= MaxInvestmentAccountId
    /\ investmentaccount' = Put(investmentaccount, nextInvestmentAccountId,
                                nextInvestmentAccountId, [status |-> account_data.status])
    /\ nextInvestmentAccountId' = nextInvestmentAccountId + 1
    /\ last' = Response("create_investment_account", 0, nextInvestmentAccountId, NoDict, "ok")
    /\ pre' = Snapshot
    /\ UNCHANGED <<ledger, loans, investmenttransaction, nextInvestmentTransactionId>>

update_investment_account(account_id, account_data) ==
    IF account_id \notin DOMAIN investmentaccount
    THEN /\ last' = Response("update_investment_account", account_id, 0, NoDict, "NotFound")
         /\ pre' = Snapshot
         /\ UNCHANGED <<ledger, loans, investments>>
    ELSE /\ investmentaccount' =
                [investmentaccount EXCEPT ![account_id].status = account_data.status]
         /\ last' = Response("update_investment_account", account_id, account_id, NoDict, "ok")
         /\ pre' = Snapshot
         /\ UNCHANGED <<ledger, loans, investmenttransaction, nextInvestmentAccountId,
                        nextInvestmentTransactionId>>

\* Mutant: session.delete(account) without the DELETE of the transactions.
delete_investment_account_alone(account_id) ==
    IF account_id \notin DOMAIN investmentaccount
    THEN /\ last' = Response("delete_investment_account", account_id, 0, NoDict, "NotFound")
         /\ pre' = Snapshot
         /\ UNCHANGED <<ledger, loans, investments>>
    ELSE /\ investmentaccount' = Drop(investmentaccount, account_id)
         /\ last' = Response("delete_investment_account", account_id, 0, NoDict, "ok")
         /\ pre' = Snapshot
         /\ UNCHANGED <<ledger, loans, investmenttransaction, nextInvestmentAccountId,
                        nextInvestmentTransactionId>>

delete_investment_account(account_id) ==
    IF account_id \notin DOMAIN investmentaccount
    THEN /\ last' = Response("delete_investment_account", account_id, 0, NoDict, "NotFound")
         /\ pre' = Snapshot
         /\ UNCHANGED <<ledger, loans, investments>>
    ELSE \* delete(InvestmentTransaction).where(account_id == account_id), then
         \* session.delete(account), in the one transaction session.commit() ends
         /\ investmenttransaction' =
                [t \in {u \in DOMAIN investmenttransaction :
                           investmenttransaction[u].account_id # account_id}
                    |-> investmenttransaction[t]]
         /\ investmentaccount' = Drop(investmentaccount, account_id)
         /\ last' = Response("delete_investment_account", account_id, 0, NoDict, "ok")
         /\ pre' = Snapshot
         /\ UNCHANGED <<ledger, loans, nextInvestmentAccountId, nextInvestmentTransactionId>>

\* The account_id of a transaction is not looked up: a row that names no
\* account is kept by a store that does not enforce the reference and refused
\* by one that does.
create_investment_transaction(transaction) ==
    /\ nextInvestmentTransactionId <= MaxInvestmentTransactionId
    /\ nextInvestmentTransactionId' = nextInvestmentTransactionId + 1
    /\ pre' = Snapshot
    /\ UNCHANGED <<ledger, loans, investmentaccount, nextInvestmentAccountId>>
    /\ \/ /\ transaction.account_id \notin DOMAIN investmentaccount
          /\ last' = Response("create_investment_transaction", 0, 0, NoDict, "IntegrityError")
          /\ UNCHANGED investmenttransaction
       \/ /\ investmenttransaction' = Put(investmenttransaction, nextInvestmentTransactionId,
                                          nextInvestmentTransactionId, transaction)
          /\ last' = Response("create_investment_transaction", 0,
                              nextInvestmentTransactionId, NoDict, "ok")

delete_investment_transaction(transaction_id) ==
    IF transaction_id \notin DOMAIN investmenttransaction
    THEN /\ last' = Response("delete_investment_transaction", transaction_id, 0, NoDict,
                             "NotFound")
         /\ pre' = Snapshot
         /\ UNCHANGED <<ledger, loans, investments>>
    ELSE /\ investmenttransaction' = Drop(investmenttransaction, transaction_id)
         /\ last' = Response("delete_investment_transaction", transaction_id, 0, NoDict, "ok")
         /\ pre' = Snapshot
         /\ UNCHANGED <<ledger, loans, investmentaccount, nextInvestmentAccountId,
                        nextInvestmentTransactionId>>

InvestmentAccountIds == 1 .. MaxInvestmentAccountId
CreateInvestmentAccount ==
    UNCHANGED request /\ \E st \in Statuses : create_investment_account([status |-> st])
UpdateInvestmentAccount ==
    UNCHANGED request /\ \E id \in InvestmentAccountIds, st \in Statuses :
        update_investment_account(id, [status |-> st])
DeleteInvestmentAccount ==
    UNCHANGED request /\ \E id \in InvestmentAccountIds : delete_investment_account(id)
CreateInvestmentTransaction ==
    UNCHANGED request /\ \E id \in InvestmentAccountIds, amount \in Amounts :
        create_investment_transaction([account_id |-> id, amount |-> amount])
DeleteInvestmentTransaction ==
    UNCHANGED request /\ \E id \in 1 .. MaxInvestmentTransactionId :
        delete_investment_transaction(id)

InvestmentsNext ==
    \/ CreateInvestmentAccount
    \/ UpdateInvestmentAccount
    \/ DeleteInvestmentAccount
    \/ CreateInvestmentTransaction
    \/ DeleteInvestmentTransaction

SpecInvestments == Init /\ [][InvestmentsNext]_vars

(***************************************************************************)
(* routers/loans.py.  A loan row is the two columns the dashboard reads;   *)
(* type is a str that nothing constrains to "GIVEN" or "TAKEN".            *)
(***************************************************************************)
MaxLoanId == 4
LoanTypes == {"GIVEN", "TAKEN", "given"}
LoanRows == [type : LoanTypes, amount : Amounts]
\* loan_data.model_dump(exclude_unset=True): the fields the body carries.
LoanUpdates == [set : SUBSET {"type", "amount"}, type : LoanTypes, amount : Amounts]

\* What the handlers of loans.py never touch.
books == <<tables, seqs, created, direct, edits, session, begun, raced, investments>>

create_loan(row) ==
    /\ nextLoanId <= MaxLoanId
    /\ loan' = Put(loan, nextLoanId, nextLoanId, row)
    /\ nextLoanId' = nextLoanId + 1
    /\ last' = Response("create_loan", 0, nextLoanId, NoDict, "ok")
    /\ pre' = Snapshot
    /\ UNCHANGED books

update_loan(loan_id, loan_data) ==
    IF loan_id \notin DOMAIN loan
    THEN /\ last' = Response("update_loan", loan_id, 0, NoDict, "NotFound")
         /\ pre' = Snapshot
         /\ UNCHANGED <<books, loans>>
    ELSE /\ loan' = [loan EXCEPT
                        ![loan_id].type = IF "type" \in loan_data.set
                                          THEN loan_data.type ELSE @,
                        ![loan_id].amount = IF "amount" \in loan_data.set
                                            THEN loan_data.amount ELSE @]
         /\ last' = Response("update_loan", loan_id, loan_id, NoDict, "ok")
         /\ pre' = Snapshot
         /\ UNCHANGED <<books, nextLoanId>>

delete_loan(loan_id) ==
    IF loan_id \notin DOMAIN loan
    THEN /\ last' = Response("delete_loan", loan_id, 0, NoDict, "NotFound")
         /\ pre' = Snapshot
         /\ UNCHANGED <<books, loans>>
    ELSE /\ loan' = Drop(loan, loan_id)
         /\ last' = Response("delete_loan", loan_id, loan_id, NoDict, "ok")
         /\ pre' = Snapshot
         /\ UNCHANGED <<books, nextLoanId>>

\* sum(l.amount for l in loans if l.type == type), in the order of the rows
RECURSIVE sum_of_type(_, _, _)
sum_of_type(rows, ids, type) ==
    IF ids = {} THEN 0
    ELSE LET i == CHOOSE j \in ids : \A k \in ids : j <= k
         IN  (IF rows[i].type = type THEN rows[i].amount ELSE 0)
                 + sum_of_type(rows, ids \ {i}, type)

\* Mutant: the net position is taken the other way round.
net_position_reversed(total_given, total_taken) == total_taken - total_given
\* net_position = total_given - total_taken
net_position(total_given, total_taken) == total_given - total_taken

get_loan_stats ==
    LET total_given == sum_of_type(loan, DOMAIN loan, "GIVEN")
        total_taken == sum_of_type(loan, DOMAIN loan, "TAKEN")
    IN  /\ last' = [op |-> "get_loan_stats", id |-> 0, row |-> 0, asked |-> NoDict,
                    res |-> "ok", total_given |-> total_given, total_taken |-> total_taken,
                    net_position |-> net_position(total_given, total_taken)]
        /\ pre' = Snapshot
        /\ UNCHANGED <<books, loans>>

CreateLoan == UNCHANGED request /\ \E row \in LoanRows : create_loan(row)
UpdateLoan ==
    UNCHANGED request /\ \E id \in 1 .. MaxLoanId, data \in LoanUpdates : update_loan(id, data)
DeleteLoan == UNCHANGED request /\ \E id \in 1 .. MaxLoanId : delete_loan(id)
GetLoanStats == UNCHANGED request /\ get_loan_stats
LoansNext == CreateLoan \/ UpdateLoan \/ DeleteLoan \/ GetLoanStats
SpecLoans == Init /\ [][LoansNext]_vars

(***************************************************************************)
(* SpecMirror: every request to the expense handlers is followed by the    *)
(* same request to the income handlers.  The two runs share the store, so  *)
(* each has accounts of its own: the income run's account for a is         *)
(* a + MaxAccountId, created with the same balance.  Entry ids agree, as   *)
(* both sequences start at 1.                                              *)
(***************************************************************************)
Shift(account_id) == IF account_id >= 1 THEN account_id + MaxAccountId ELSE account_id
ShiftDict(data) ==
    [data EXCEPT !.account_id = IF @.t = "num" THEN Num(Shift(@.n)) ELSE @]

MirrorAmounts == GoodAmounts \cup {Str(<<"a", "b", "c">>)}
\* 2 * MaxAccountId + 1 names an account that neither run has.
MirrorRefs ==
    {Num(r) : r \in (0 .. MaxAccountId) \cup {2 * MaxAccountId + 1}}
        \cup {JsonNull, JsonList, Absent}
MirrorCreateInputs == {Dict(a, r, Absent) : a \in MirrorAmounts, r \in MirrorRefs}
MirrorUpdateInputs == {Dict(a, r, Absent) : a \in MirrorAmounts \cup {Absent}, r \in MirrorRefs}

InitMirror ==
    /\ account = [i \in 1 .. 2 * MaxAccountId |->
                    [name |-> "cash",
                     balance |-> IF i \in {1, Shift(1)} THEN OpeningBalance ELSE 0]]
    /\ created = [i \in 1 .. 2 * MaxAccountId |-> account[i].balance]
    /\ direct = {}
    /\ edits = 0
    /\ expense = EmptyTable
    /\ income = EmptyTable
    /\ nextAccountId = 2 * MaxAccountId + 1
    /\ nextExpenseId = 1
    /\ nextIncomeId = 1
    /\ pre = Snapshot
    /\ last = Start
    /\ request = Dict(Absent, Absent, Absent)
    /\ session = [c \in Clients |-> Idle]
    /\ begun = 0
    /\ raced = FALSE
    /\ investmentaccount = EmptyTable
    /\ investmenttransaction = EmptyTable
    /\ nextInvestmentAccountId = 1
    /\ nextInvestmentTransactionId = 1
    /\ loan = EmptyTable
    /\ nextLoanId = 1

ExpenseTurn == last.op \notin {"create_expense", "update_expense", "delete_expense"}
\* One store serves both runs: where the outcome of a commit is the store's
\* choice, it chooses for the income run as it chose for the expense run.
SameStore ==
    (last.res \in {"ok", "IntegrityError"} /\ last'.res \in {"ok", "IntegrityError"})
        => last'.res = last.res

MirrorCreateExpense ==
    /\ ExpenseTurn /\ nextExpenseId <= MaxIncomeId
    /\ \E input \in MirrorCreateInputs : create_expense(input) /\ request' = input
MirrorUpdateExpense ==
    /\ ExpenseTurn
    /\ \E id \in 1 .. MaxIncomeId, data \in MirrorUpdateInputs :
          update_expense(id, data) /\ request' = data
MirrorDeleteExpense ==
    /\ ExpenseTurn /\ UNCHANGED request
    /\ \E id \in 1 .. MaxIncomeId : delete_expense(id)
MirrorCreateIncome ==
    /\ last.op = "create_expense" /\ UNCHANGED request
    /\ create_income(ShiftDict(request)) /\ SameStore
MirrorUpdateIncome ==
    /\ last.op = "update_expense" /\ UNCHANGED request
    /\ update_income(last.id, ShiftDict(request)) /\ SameStore
MirrorDeleteIncome ==
    /\ last.op = "delete_expense" /\ UNCHANGED request
    /\ delete_income(last.id)

MirrorIncomeNext == MirrorCreateIncome \/ MirrorUpdateIncome \/ MirrorDeleteIncome
MirrorNext ==
    \/ MirrorCreateExpense
    \/ MirrorUpdateExpense
    \/ MirrorDeleteExpense
    \/ MirrorCreateIncome
    \/ MirrorUpdateIncome
    \/ MirrorDeleteIncome

SpecMirror == InitMirror /\ [][MirrorNext]_vars

(***************************************************************************)
(* routers/expenses.py and routers/income.py: GET /dashboard.  The handler *)
(* reads the clock and the table and writes nothing, so SpecDashboard      *)
(* starts from a stored table and serves dashboards at any clock reading.  *)
(* Time is counted in instants, MonthLength of them to a calendar month;   *)
(* the rows carry the datetime column, which the other handlers copy and   *)
(* never read.                                                             *)
(***************************************************************************)
MonthLength == 2
MaxTime == 3
MaxDashboardRows == 6
Times == 1 .. MaxTime

\* start_of_month = datetime(now.year, now.month, 1)
start_of_month(now) == now - (now % MonthLength)
\* .where(Expense.datetime >= start_of_month)
where_datetime(table, now) ==
    {i \in DOMAIN table : table[i].datetime >= start_of_month(now)}

\* select(func.sum(Expense.amount)): NULL over no rows, read as `or 0.0`
RECURSIVE func_sum(_, _)
func_sum(table, ids) ==
    IF ids = {} THEN 0
    ELSE LET i == CHOOSE j \in ids : \A k \in ids : j <= k
         IN  table[i].amount + func_sum(table, ids \ {i})

limit == 5
\* .order_by(Expense.datetime.desc()).limit(n): every answer the store may
\* give; rows of equal datetime come in an order the query does not fix.
RECURSIVE order_by_datetime_desc(_, _, _)
order_by_datetime_desc(table, ids, n) ==
    IF ids = {} \/ n = 0 THEN {<<>>}
    ELSE UNION {{<<i>> \o rest : rest \in order_by_datetime_desc(table, ids \ {i}, n - 1)} :
                i \in {j \in ids : \A k \in ids : table[j].datetime >= table[k].datetime}}

get_dashboard_stats(kind, table, now) ==
    /\ \E recent \in order_by_datetime_desc(table, where_datetime(table, now), limit) :
          last' = [op |-> "get_dashboard_stats", id |-> 0, row |-> 0, asked |-> NoDict,
                   res |-> "ok", kind |-> kind, now |-> now,
                   current_month_total |-> func_sum(table, where_datetime(table, now)),
                   recent |-> recent]
    /\ UNCHANGED <<tables, seqs, created, direct, edits, pre, request, open>>

\* Stored tables of up to MaxDashboardRows rows, dated anywhere in Times.
DashboardTables ==
    UNION {{[i \in 1 .. n |-> [amount |-> 1 + (i % MaxAmount), account_id |-> None,
                                datetime |-> dated[i]]] :
            dated \in [1 .. n -> Times]} : n \in 0 .. MaxDashboardRows}

InitDashboard ==
    /\ account = [i \in AccountIds |->
                    [name |-> "cash", balance |-> IF i = 1 THEN OpeningBalance ELSE 0]]
    /\ created = [i \in AccountIds |-> account[i].balance]
    /\ direct = {}
    /\ edits = 0
    /\ \E table \in DashboardTables :
          \/ expense = table /\ income = EmptyTable
          \/ income = table /\ expense = EmptyTable
    /\ nextAccountId = MaxAccountId + 1
    /\ nextExpenseId = Len(expense) + 1
    /\ nextIncomeId = Len(income) + 1
    /\ pre = Snapshot
    /\ last = Start
    /\ request = Dict(Absent, Absent, Absent)
    /\ session = [c \in Clients |-> Idle]
    /\ begun = 0
    /\ raced = FALSE
    /\ investmentaccount = EmptyTable
    /\ investmenttransaction = EmptyTable
    /\ nextInvestmentAccountId = 1
    /\ nextInvestmentTransactionId = 1
    /\ loan = EmptyTable
    /\ nextLoanId = 1

\* The handler reads the table and the clock only, so one request on each
\* stored table, at each clock reading, reaches every answer there is.
GetExpenseDashboard ==
    last = Start /\ \E now \in Times : get_dashboard_stats("expense", expense, now)
GetIncomeDashboard ==
    last = Start /\ \E now \in Times : get_dashboard_stats("income", income, now)
DashboardNext == GetExpenseDashboard \/ GetIncomeDashboard
SpecDashboard == InitDashboard /\ [][DashboardNext]_vars

(***************************************************************************)
(* What the ledger says an account holds.                                  *)
(***************************************************************************)
RECURSIVE SumAmounts(_, _)
SumAmounts(table, ids) ==
    IF ids = {} THEN 0
    ELSE LET i == CHOOSE j \in ids : TRUE
         IN  table[i].amount + SumAmounts(table, ids \ {i})
Total(table, a) == SumAmounts(table, Referencing(table, a))

Unchanged == account = pre.account /\ expense = pre.expense /\ income = pre.income
Ops(names) == last.op \in names
Succeeded == last.res = "ok"
\* The request named an account (not null, not absent) that was not there.
AskedMissingAccount ==
    /\ last.asked.account_id \notin {Unsent, None}
    /\ last.asked.account_id \notin DOMAIN pre.account

\* C1: after any sequence of expense and income requests against accounts that
\* are never deleted or edited directly, every account's balance is the balance
\* it was created with, plus the amounts of the income rows that reference it,
\* minus the amounts of the expense rows that reference it.
C1_BalanceIsLedgerSum ==
    \A a \in DOMAIN account :
        account[a].balance = created[a] + Total(income, a) - Total(expense, a)

\* Reached: an expense was just deleted from an account that another expense
\* and an income still reference.
C1_Witness ==
    /\ Ops({"delete_expense"}) /\ Succeeded
    /\ \E a \in DOMAIN account :
          /\ pre.expense[last.id].account_id = a
          /\ Referencing(expense, a) # {}
          /\ Referencing(income, a) # {}

C3_UpdateToMissingAccountRefused ==
    (Ops({"update_expense", "update_income"}) /\ AskedMissingAccount)
        => (last.res = "AccountNotFound" /\ Unchanged)

\* C4: a create or an update whose account reference is a non-null integer that
\* names no account fails with AccountNotFound and persists nothing.
C4_MissingAccountAborts ==
    \A op \in {"create_expense", "update_expense", "create_income", "update_income"} :
        (last.op = op /\ AskedMissingAccount)
            => (last.res = "AccountNotFound" /\ Unchanged)

\* The row a successful update or delete found, and the row a successful
\* create or update left.
OldExpense == pre.expense[last.id]
NewExpense == expense[last.row]
OldIncome == pre.income[last.id]
NewIncome == income[last.row]
Exists(a) == a \in DOMAIN pre.account
\* The balances before the request, with `delta` added to account a's.
Moved(accounts, a, delta) == [accounts EXCEPT ![a].balance = @ + delta]

\* What the request of session s adds to the balance of account a.
Effect(s, a) ==
    IF s.op = "create_expense" THEN (IF a = s.row.account_id THEN 0 - s.row.amount ELSE 0)
    ELSE (IF a = s.row.account_id THEN s.row.amount ELSE 0)
            - (IF a = s.old.account_id THEN s.old.amount ELSE 0)

\* C5: a request that commits leaves each balance it changed at the balance it
\* had read plus its own effect, whatever has been committed since it read (the
\* last committer's value stands); and as long as no session has committed over
\* another's commit, every balance is its balance at creation plus its income
\* rows minus its expense rows.
C5_LastCommitterWins ==
    /\ \A c \in Clients :
          session[c].pc = "committed" =>
              \A a \in DOMAIN session[c].loaded :
                  account[a].balance =
                      IF Effect(session[c], a) = 0 THEN pre.account[a].balance
                      ELSE session[c].loaded[a] + Effect(session[c], a)
    /\ ~raced =>
          \A a \in DOMAIN account :
              account[a].balance = created[a] + Total(income, a) - Total(expense, a)

\* Reached: two requests on one account have overlapped, the second has just
\* committed over the first, and the account's balance is not what its entries
\* add up to.
C5_Witness ==
    \E c \in Clients :
        /\ session[c].pc = "committed" /\ session[c].stale
        /\ \E a \in DOMAIN session[c].loaded :
              account[a].balance # created[a] + Total(income, a) - Total(expense, a)

\* C6: a successful update that moves an expense of amount a from existing
\* account A to another existing account B, amount unchanged, adds a to A's
\* balance, takes a from B's, keeps the expense's amount and changes no other
\* balance; for an income the signs are reversed.
C6_RebindMovesEffect ==
    /\ (/\ Ops({"update_expense"}) /\ Succeeded
        /\ Exists(OldExpense.account_id) /\ Exists(NewExpense.account_id)
        /\ OldExpense.account_id # NewExpense.account_id
        /\ last.asked.amount \in {Unsent, OldExpense.amount})
       => /\ NewExpense.amount = OldExpense.amount
          /\ account = Moved(Moved(pre.account, OldExpense.account_id, OldExpense.amount),
                             NewExpense.account_id, 0 - OldExpense.amount)
    /\ (/\ Ops({"update_income"}) /\ Succeeded
        /\ Exists(OldIncome.account_id) /\ Exists(NewIncome.account_id)
        /\ OldIncome.account_id # NewIncome.account_id
        /\ last.asked.amount \in {Unsent, OldIncome.amount})
       => /\ NewIncome.amount = OldIncome.amount
          /\ account = Moved(Moved(pre.account, OldIncome.account_id, 0 - OldIncome.amount),
                             NewIncome.account_id, OldIncome.amount)

\* Reached: an expense has just been moved from one account to another.
C6_Witness ==
    /\ Ops({"update_expense"}) /\ Succeeded
    /\ Exists(OldExpense.account_id) /\ Exists(NewExpense.account_id)
    /\ OldExpense.account_id # NewExpense.account_id
    /\ last.asked.amount = Unsent

\* C7: a successful create of an expense of amount a on an existing account
\* with balance b leaves the balance at b - a, of an income at b + a, and the
\* new row is there with that amount and that account.
C7_CreateAppliesEffect ==
    /\ (Ops({"create_expense"}) /\ Succeeded /\ Exists(last.asked.account_id))
       => /\ last.row \notin DOMAIN pre.expense
          /\ last.row \in DOMAIN expense
          /\ NewExpense = [amount |-> last.asked.amount, account_id |-> last.asked.account_id]
          /\ account[last.asked.account_id].balance =
                 pre.account[last.asked.account_id].balance - last.asked.amount
    /\ (Ops({"create_income"}) /\ Succeeded /\ Exists(last.asked.account_id))
       => /\ last.row \notin DOMAIN pre.income
          /\ last.row \in DOMAIN income
          /\ NewIncome = [amount |-> last.asked.amount, account_id |-> last.asked.account_id]
          /\ account[last.asked.account_id].balance =
                 pre.account[last.asked.account_id].balance + last.asked.amount

\* Reached: an income has just been created on an account.
C7_Witness ==
    Ops({"create_income"}) /\ Succeeded /\ Exists(last.asked.account_id)

\* C8: deleting an income of amount a on an existing account with balance b
\* leaves b - a, deleting an expense leaves b + a; the row is gone and nothing
\* else is applied to any account.
C8_DeleteRevertsEffect ==
    /\ (Ops({"delete_income"}) /\ Succeeded)
       => /\ last.id \notin DOMAIN income
          /\ Exists(OldIncome.account_id)
                => account = Moved(pre.account, OldIncome.account_id, 0 - OldIncome.amount)
    /\ (Ops({"delete_expense"}) /\ Succeeded)
       => /\ last.id \notin DOMAIN expense
          /\ Exists(OldExpense.account_id)
                => account = Moved(pre.account, OldExpense.account_id, OldExpense.amount)

\* Reached: an income that referenced an account has just been deleted.
C8_Witness ==
    Ops({"delete_income"}) /\ Succeeded /\ Exists(OldIncome.account_id)

\* C9: an update that sets the account reference of an entry on existing
\* account A to null succeeds, undoes the entry's effect on A (plus the old
\* amount for an expense, minus it for an income), applies nothing to any
\* account and leaves the entry without an account.
C9_DetachRevertsOnly ==
    /\ (/\ Ops({"update_expense"}) /\ last.id \in DOMAIN pre.expense
        /\ last.asked.account_id = None /\ Exists(OldExpense.account_id))
       => /\ Succeeded
          /\ NewExpense.account_id = None
          /\ account = Moved(pre.account, OldExpense.account_id, OldExpense.amount)
    /\ (/\ Ops({"update_income"}) /\ last.id \in DOMAIN pre.income
        /\ last.asked.account_id = None /\ Exists(OldIncome.account_id))
       => /\ Succeeded
          /\ NewIncome.account_id = None
          /\ account = Moved(pre.account, OldIncome.account_id, 0 - OldIncome.amount)

\* Reached: an expense has just been detached from its account, its amount
\* changed by the same request.
C9_Witness ==
    /\ Ops({"update_expense"}) /\ Succeeded
    /\ last.asked.account_id = None /\ Exists(OldExpense.account_id)
    /\ NewExpense.amount # OldExpense.amount

\* The request sent no account reference, or sent null.
AskedNoAccount == last.asked.account_id \in {Unsent, None}

\* C10: a create, update or delete of an entry that has no account before and
\* none after leaves every balance as it was.
C10_NoAccountNoEffect ==
    /\ (Ops({"create_expense", "create_income"}) /\ Succeeded /\ AskedNoAccount)
       => account = pre.account
    /\ (/\ Ops({"update_expense"}) /\ Succeeded
        /\ OldExpense.account_id = None /\ AskedNoAccount)
       => account = pre.account /\ NewExpense.account_id = None
    /\ (/\ Ops({"update_income"}) /\ Succeeded
        /\ OldIncome.account_id = None /\ AskedNoAccount)
       => account = pre.account /\ NewIncome.account_id = None
    /\ (Ops({"delete_expense"}) /\ Succeeded /\ OldExpense.account_id = None)
       => account = pre.account
    /\ (Ops({"delete_income"}) /\ Succeeded /\ OldIncome.account_id = None)
       => account = pre.account

\* Reached: the amount of an expense without an account has just been changed.
C10_Witness ==
    /\ Ops({"update_expense"}) /\ Succeeded
    /\ OldExpense.account_id = None /\ NewExpense.account_id = None
    /\ NewExpense.amount # OldExpense.amount

\* The row names an account that is not (or no longer) there.
Orphan(row) == row.account_id \notin {None} \cup DOMAIN pre.account

\* C11: for an entry whose account has been deleted, a delete succeeds, removes
\* the entry and changes no balance; an update that detaches it succeeds and
\* changes no balance; an update that rebinds it to an existing account B
\* succeeds and changes only B's balance, by the entry's new effect.
C11_MissingOldAccountSkipped ==
    /\ (Ops({"delete_expense"}) /\ last.id \in DOMAIN pre.expense /\ Orphan(OldExpense))
       => Succeeded /\ account = pre.account /\ last.id \notin DOMAIN expense
    /\ (Ops({"delete_income"}) /\ last.id \in DOMAIN pre.income /\ Orphan(OldIncome))
       => Succeeded /\ account = pre.account /\ last.id \notin DOMAIN income
    /\ (/\ Ops({"update_expense"}) /\ last.id \in DOMAIN pre.expense
        /\ Orphan(OldExpense) /\ last.asked.account_id = None)
       => Succeeded /\ account = pre.account /\ NewExpense.account_id = None
    /\ (/\ Ops({"update_income"}) /\ last.id \in DOMAIN pre.income
        /\ Orphan(OldIncome) /\ last.asked.account_id = None)
       => Succeeded /\ account = pre.account /\ NewIncome.account_id = None
    /\ (/\ Ops({"update_expense"}) /\ last.id \in DOMAIN pre.expense
        /\ Orphan(OldExpense) /\ Exists(last.asked.account_id))
       => /\ Succeeded
          /\ NewExpense.account_id = last.asked.account_id
          /\ account = Moved(pre.account, last.asked.account_id, 0 - NewExpense.amount)
    /\ (/\ Ops({"update_income"}) /\ last.id \in DOMAIN pre.income
        /\ Orphan(OldIncome) /\ Exists(last.asked.account_id))
       => /\ Succeeded
          /\ NewIncome.account_id = last.asked.account_id
          /\ account = Moved(pre.account, last.asked.account_id, NewIncome.amount)

\* Reached: an expense whose account had been deleted has just been rebound to
\* an account that exists.
C11_Witness ==
    /\ Ops({"update_expense"}) /\ Succeeded /\ last.id \in DOMAIN pre.expense
    /\ Orphan(OldExpense) /\ Exists(last.asked.account_id)

\* Values float() refuses, and values int() refuses.
RefusedAmounts == {Str(<<"a", "b", "c">>), JsonNull, JsonList}
RefusedRefs == {Str(<<"$", "1">>), JsonList}

\* C12: a create or update whose amount cannot be converted reports
\* InvalidAmount, one whose amount can but whose account reference cannot
\* reports InvalidReference, and either leaves every row and balance as it was.
C12_RefusedValueAborts ==
    Ops({"create_expense", "update_expense", "create_income", "update_income"})
        => /\ request.amount \in RefusedAmounts
              => last.res = "InvalidAmount" /\ Unchanged
           /\ (request.amount \notin RefusedAmounts /\ request.account_id \in RefusedRefs)
              => last.res = "InvalidReference" /\ Unchanged

\* Reached: an update of an existing expense on an account has just been
\* refused for its account reference, its amount being acceptable.
C12_Witness ==
    /\ Ops({"update_expense"}) /\ last.res = "InvalidReference"
    /\ request.amount = Num(MaxAmount) /\ request.account_id \in RefusedRefs
    /\ last.id \in DOMAIN expense /\ Exists(expense[last.id].account_id)

\* C13: an update or a delete of an entry id that names no row reports NotFound
\* and leaves every row and balance as it was.
C13_MissingEntryNotFound ==
    /\ (Ops({"update_expense", "delete_expense"}) /\ last.id \notin DOMAIN pre.expense)
       => last.res = "NotFound" /\ Unchanged
    /\ (Ops({"update_income", "delete_income"}) /\ last.id \notin DOMAIN pre.income)
       => last.res = "NotFound" /\ Unchanged

\* Reached: a delete has just been refused for an expense id that the sequence
\* has handed out, while another expense exists.
C13_Witness ==
    /\ Ops({"delete_expense"}) /\ last.res = "NotFound"
    /\ last.id < nextExpenseId /\ expense # EmptyTable

\* C14: a delete of an existing account leaves every expense and income row,
\* those that reference the account included, and every other account as they
\* were; when it succeeds, the account's own row is gone.
C14_DeleteAccountDoesNotCascade ==
    (Ops({"delete_account"}) /\ last.id \in DOMAIN pre.account)
        => /\ expense = pre.expense
           /\ income = pre.income
           /\ \A a \in DOMAIN pre.account \ {last.id} :
                 a \in DOMAIN account /\ account[a] = pre.account[a]
           /\ DOMAIN account \subseteq DOMAIN pre.account
           /\ Succeeded => last.id \notin DOMAIN account

\* Reached: an account that an expense references has just been deleted, and
\* the expense is still there.
C14_Witness ==
    /\ Ops({"delete_account"}) /\ Succeeded
    /\ Referencing(expense, last.id) # {}

\* C15: a step that removes investment account X leaves no transaction that
\* references X, removes no other transaction and changes none, and is one
\* step: the transactions and the account go together.
C15_DeleteInvestmentAccountCascades ==
    [][\A x \in DOMAIN investmentaccount :
          x \notin DOMAIN investmentaccount'
              => /\ \A t \in DOMAIN investmenttransaction' :
                       investmenttransaction'[t].account_id # x
                 /\ \A t \in DOMAIN investmenttransaction :
                       investmenttransaction[t].account_id # x
                           => /\ t \in DOMAIN investmenttransaction'
                              /\ investmenttransaction'[t] = investmenttransaction[t]
                 /\ DOMAIN investmenttransaction' \subseteq DOMAIN investmenttransaction
                 /\ \A y \in DOMAIN investmentaccount \ {x} :
                       /\ y \in DOMAIN investmentaccount'
                       /\ investmentaccount'[y] = investmentaccount[y]]_vars

\* Reached: an investment account has just been deleted; fewer transactions
\* exist than were created, and each of them is on an account that exists.
C15_Witness ==
    /\ Ops({"delete_investment_account"}) /\ Succeeded
    /\ last.id \notin DOMAIN investmentaccount
    /\ investmenttransaction # EmptyTable
    /\ Cardinality(DOMAIN investmenttransaction) < nextInvestmentTransactionId - 2
    /\ \A t \in DOMAIN investmenttransaction :
          investmenttransaction[t].account_id \in DOMAIN investmentaccount

\* The income run stands where the expense run stands: the same entries, and
\* each account as far above its opening balance as its twin is below.
Mirrored ==
    /\ DOMAIN income = DOMAIN expense
    /\ \A i \in DOMAIN expense :
          /\ income[i].amount = expense[i].amount
          /\ income[i].account_id = Shift(expense[i].account_id)
    /\ \A a \in AccountIds :
          account[Shift(a)].balance - created[Shift(a)] = created[a] - account[a].balance
    /\ nextIncomeId = nextExpenseId
\* The income request answers as the expense request did, for the same row.
SameOutcome == ~ExpenseTurn => (last'.res = last.res /\ last'.row = last.row)

\* C16: the same requests sent to the expense handlers and to the income
\* handlers, from the same balances, get the same outcome one by one and leave,
\* after each, every account changed by the same amount with the opposite sign.
C16_IncomeMirrorsExpense ==
    /\ [](ExpenseTurn => Mirrored)
    /\ [](~ExpenseTurn => ENABLED MirrorIncomeNext)
    /\ [][SameOutcome]_vars

\* Reached: an income has just been rebound as the expense was, and an account
\* of the expense run is below its opening balance, its twin above.
C16_Witness ==
    /\ Ops({"update_income"}) /\ Succeeded
    /\ last.asked.account_id = Shift(MaxAccountId)
    /\ account[MaxAccountId].balance < created[MaxAccountId]
    /\ account[Shift(MaxAccountId)].balance > created[Shift(MaxAccountId)]

\* The table a dashboard was served from, the first instant of the month of
\* its clock reading, and the entries dated from that instant through now.
Served == IF last.kind = "expense" THEN expense ELSE income
FirstInstantOfCurrentMonth ==
    CHOOSE t \in 0 .. last.now : t % MonthLength = 0 /\ last.now - t < MonthLength
Window ==
    {i \in DOMAIN Served : /\ FirstInstantOfCurrentMonth <= Served[i].datetime
                           /\ Served[i].datetime <= last.now}
\* i comes before j in a list of recent entries.
MoreRecent(i, j) ==
    \/ Served[i].datetime > Served[j].datetime
    \/ Served[i].datetime = Served[j].datetime /\ i > j

\* C17: the dashboard's month total is the sum of the amounts of the entries
\* dated from the first instant of the current month through now, and of no
\* others (0 when there are none).
C17_MonthTotalIsWindowSum ==
    Ops({"get_dashboard_stats"}) => last.current_month_total = SumAmounts(Served, Window)

\* C18: the dashboard lists at most five entries, all dated in the current
\* month through now, latest first and among equal datetimes highest id
\* first; no entry of the window left out comes before a listed one; and the
\* stored entries allow one answer only.
C18_RecentEntriesAreTheLatestFive ==
    Ops({"get_dashboard_stats"}) =>
        LET recent == last.recent
            listed == {recent[n] : n \in 1 .. Len(recent)}
        IN  /\ Len(recent) <= 5
            /\ Cardinality(listed) = Len(recent)
            /\ listed \subseteq Window
            /\ \A m, n \in 1 .. Len(recent) : m < n => MoreRecent(recent[m], recent[n])
            /\ \A i \in Window \ listed : \A j \in listed : ~MoreRecent(i, j)
            /\ Cardinality(order_by_datetime_desc(Served, where_datetime(Served, last.now),
                                                  limit)) = 1

LoanOps == {"create_loan", "update_loan", "delete_loan", "get_loan_stats"}
Direction(type) == {i \in DOMAIN loan : loan[i].type = type}

\* C19: the loan dashboard reports, over all loans that exist whatever their
\* date, the sum of the amounts of the loans GIVEN, the sum of the loans TAKEN
\* and the first minus the second; and a loan request leaves every account,
\* its balance included, as it was.
C19_LoanStatsAndNoBalanceEffect ==
    /\ Ops({"get_loan_stats"}) =>
          /\ last.total_given = SumAmounts(loan, Direction("GIVEN"))
          /\ last.total_taken = SumAmounts(loan, Direction("TAKEN"))
          /\ last.net_position = last.total_given - last.total_taken
    /\ Ops(LoanOps) => account = pre.account

\* Reached: a dashboard served after a loan was deleted, with loans in both
\* directions, of unequal totals, and a loan that is of neither.
C19_Witness ==
    /\ Ops({"get_loan_stats"})
    /\ Cardinality(DOMAIN loan) < nextLoanId - 1
    /\ last.total_given > last.total_taken /\ last.total_taken > 0
    /\ \E i \in DOMAIN loan : loan[i].type \notin {"GIVEN", "TAKEN"}

LedgerOps ==
    {"create_expense", "update_expense", "delete_expense",
     "create_income", "update_income", "delete_income"}
\* The table the last request was about, before it and after it, and the
\* accounts its entry referenced before and references after.
EntriesBefore == IF Ops({"create_expense", "update_expense", "delete_expense"})
                 THEN pre.expense ELSE pre.income
EntriesAfter == IF Ops({"create_expense", "update_expense", "delete_expense"})
                THEN expense ELSE income
OtherEntriesBefore == IF Ops({"create_expense", "update_expense", "delete_expense"})
                      THEN pre.income ELSE pre.expense
OtherEntriesAfter == IF Ops({"create_expense", "update_expense", "delete_expense"})
                     THEN income ELSE expense
EntryAccounts ==
    {EntriesBefore[i].account_id : i \in {last.id} \cap DOMAIN EntriesBefore}
        \cup {EntriesAfter[i].account_id : i \in {last.row} \cap DOMAIN EntriesAfter}
BalanceChanged == {a \in DOMAIN account : account[a].balance # pre.account[a].balance}

\* C20: one create, update or delete of an expense or an income changes the
\* balance of at most two accounts, the one its entry referenced before and
\* the one it references after; it creates and deletes no account, changes no
\* name, and leaves every other entry, of either kind, as it was.
C20_OnlyOldAndNewAccountChange ==
    Ops(LedgerOps) =>
        /\ DOMAIN account = DOMAIN pre.account
        /\ \A a \in DOMAIN account : account[a].name = pre.account[a].name
        /\ BalanceChanged \subseteq EntryAccounts
        /\ Cardinality(BalanceChanged) <= 2
        /\ OtherEntriesAfter = OtherEntriesBefore
        /\ \A i \in (DOMAIN EntriesBefore \cup DOMAIN EntriesAfter) \ {last.id, last.row} :
              /\ i \in DOMAIN EntriesBefore /\ i \in DOMAIN EntriesAfter
              /\ EntriesAfter[i] = EntriesBefore[i]

\* Reached: an expense has just been moved from one account to another; both
\* balances changed, a third account and an income stand as they were.
C20_Witness ==
    /\ Ops({"update_expense"}) /\ Succeeded
    /\ Cardinality(BalanceChanged) = 2
    /\ DOMAIN account \ BalanceChanged # {}
    /\ income # EmptyTable

\* C21: an update never changes which entry is which: whatever the body
\* carries, the key "id" included, the ids of the entries of that kind are
\* the same after the update as before it, and the entry written is the one
\* the path named.
C21_UpdateKeepsIdentity ==
    Ops({"update_expense", "update_income"}) =>
        /\ DOMAIN EntriesAfter = DOMAIN EntriesBefore
        /\ Succeeded => last.row = last.id

====
